---- MODULE Spec2Model ----
(***************************************************************************)
(* Fluentify AI: the practice session, the exercise drill and the phrase   *)
(* library of the App component, as a state machine.                       *)
(*                                                                         *)
(* The component is a React function component: every render creates new   *)
(* handler closures over the state of that render.  Handlers bound in the  *)
(* markup are those of the latest render and read the current state.  Two  *)
(* kinds of code read an older render's state and are modelled with an     *)
(* explicit snapshot ("closure"):                                          *)
(*   - startRecording is memoised with useCallback(..., [targetText]): it  *)
(*     is the closure of the last render in which targetText changed, and  *)
(*     the handleProcessing it installs as onstop is of that render too;   *)
(*   - the continuation of an asynchronous call (reader.onload of          *)
(*     handleImport) belongs to the render in which the call was made.     *)
(* Text is a sequence of one-character strings.  An optional value is a    *)
(* sequence of length 0 (absent / undefined / null) or 1 (present).        *)
(***************************************************************************)
EXTENDS Integers, Sequences, FiniteSets, TLC

\* ------------------------------------------------------------------ bounds
MaxStarts == 2
MaxAdds == 2
MaxImports == 1
MaxImportLen == 2
MaxChecks == 1
MaxTextLen == 4
MaxInputLen == 1
MaxWords == 200
MaxPlays == 2
\* Exported files kept in the download folder.
MaxExports == 1

\* --------------------------------------------------------- optional values
None == <<>>
Some(x) == <<x>>
Has(o) == o # <<>>
Val(o) == o[1]

\* ------------------------------------------------------- sequence helpers
SeqToSet(s) == {s[i] : i \in 1..Len(s)}

\* The strictly increasing sequence of the elements of a finite set of naturals.
SortedSeq(S) ==
  IF S = {} THEN <<>>
  ELSE LET hi == CHOOSE x \in S : \A y \in S : y <= x
       IN SelectSeq([i \in 1..(hi + 1) |-> i - 1], LAMBDA x : x \in S)

\* --------------------------------------------------------------- characters
Space == " "
Whitespace == {" ", "\t"}
Punctuation == {".", "-"}
UpperToLower == [c \in {"A", "B"} |-> IF c = "A" THEN "a" ELSE "b"]

toLowerCase(t) == [i \in 1..Len(t) |-> IF t[i] \in DOMAIN UpperToLower THEN UpperToLower[t[i]] ELSE t[i]]

\* The text as it is.
Untrimmed(t) == t

\* String.prototype.trim: drop leading and trailing whitespace.
trim(t) ==
  LET keep == {i \in 1..Len(t) : t[i] \notin Whitespace}
  IN IF keep = {} THEN <<>>
     ELSE LET lo == CHOOSE i \in keep : \A j \in keep : i <= j
              hi == CHOOSE i \in keep : \A j \in keep : j <= i
          IN SubSeq(t, lo, hi)

\* The text with its punctuation left in.
KeepPunctuation(t) == t

\* replace(/[.,/#!$%^&*;:{}=\-_`~()]/g, ""): delete every punctuation character.
StripPunctuation(t) == SelectSeq(t, LAMBDA c : c \notin Punctuation)

\* replace(/\s+/g, " "): every maximal run of whitespace becomes one space.
CollapseWhitespace(t) ==
  LET keep == {i \in 1..Len(t) : t[i] \notin Whitespace \/ i = 1 \/ t[i - 1] \notin Whitespace}
      idx == SortedSeq(keep)
  IN [k \in 1..Len(idx) |-> IF t[idx[k]] \in Whitespace THEN Space ELSE t[idx[k]]]

normalizeText(text) == trim(CollapseWhitespace(StripPunctuation(toLowerCase(text))))

\* String.prototype.split(' '): the pieces between single spaces; never empty.
SplitSpace(t) ==
  LET cuts == SortedSeq({0} \cup {i \in 1..Len(t) : t[i] = Space} \cup {Len(t) + 1})
  IN [k \in 1..(Len(cuts) - 1) |-> SubSeq(t, cuts[k] + 1, cuts[k + 1] - 1)]

\* ------------------------------------------------------------------- types
Difficulty == {"Easy", "Medium", "Hard"}
AppStatus == {"IDLE", "RECORDING", "ANALYZING", "RESULT", "ERROR", "EXERCISE"}
ExerciseStep == {"WRITING", "SPEAKING", "RESULT", "FINISHED"}
SavedPhraseFields == {"id", "text", "note", "timestamp", "lastScore", "practiceCount"}

\* useState("The quick brown fox jumps over the lazy dog.")
DefaultTargetText == <<"q">>

\* A SavedPhrase in memory: every field present or absent.
SavedPhrase(id, text, note, timestamp, lastScore, practiceCount) ==
  [id |-> id, text |-> text, note |-> note, timestamp |-> timestamp,
   lastScore |-> lastScore, practiceCount |-> practiceCount]

\* ------------------------------------------------------------------- JSON
\* JSON.stringify of an object writes the fields that are present; JSON.parse
\* of an object gives the fields that were written.
StringifyPhrase(p) == [f \in {g \in SavedPhraseFields : Has(p[g])} |-> Val(p[f])]
ParsePhrase(j) == [f \in SavedPhraseFields |-> IF f \in DOMAIN j THEN Some(j[f]) ELSE None]
JSONstringify(lib) == [i \in 1..Len(lib) |-> StringifyPhrase(lib[i])]
JSONparse(json) == [i \in 1..Len(json) |-> ParsePhrase(json[i])]
\* A null element of a parsed array; reading a property of it throws.
JSONnull == [null |-> TRUE]
ThrowsOnText(json) == \E i \in 1..Len(json) : json[i] = JSONnull

\* ------------------------------------------------------------------ inputs
\* What the user types into the target-text box, the note box and the drill's
\* answer box; what the remote services and the file chooser deliver.
TypedTexts == {<<" ", "a">>, <<" ">>}
TypedNotes == {<<"n">>}
TypedAnswers == {<<"a">>}
GeneratedPhrases == {<<"a">>}
\* A response whose mispronouncedWords holds an empty string.
WordResponses ==
  { [accuracyScore |-> Some(40), mispronouncedWords |-> Some(<< <<>>, <<"a">> >>)] }
AnalysisResponses ==
  { [accuracyScore |-> Some(40), mispronouncedWords |-> Some(<< <<"a">> >>)],
    [accuracyScore |-> Some(101), mispronouncedWords |-> Some(<<>>)],
    [accuracyScore |-> None, mispronouncedWords |-> None] }
ImportItem(i, t) == [id |-> i, text |-> t, note |-> <<"i">>, timestamp |-> 0, lastScore |-> 50]
ImportItems == {ImportItem(9, <<"a">>), ImportItem(1, <<"a">>), ImportItem(1, <<"b">>)}
\* An object that lacks the text, note and timestamp of a SavedPhrase.
ImportPartial == [id |-> 7]
\* A parsed element with the fields the SavedPhrase interface requires.
WellFormedRecord(j) == {"id", "text", "note", "timestamp"} \subseteq DOMAIN j
\* The chosen file: text that is not JSON, JSON that is not an array, or an array.
ImportFiles ==
  { [kind |-> "array", json |-> js] :
      js \in UNION {[1..n -> ImportItems \cup {JSONnull, ImportPartial}] : n \in 1..MaxImportLen} }
  \cup {[kind |-> "text", json |-> <<>>], [kind |-> "object", json |-> <<>>]}
ImportFilesOfPhrases ==
  {file \in ImportFiles :
     file.kind = "array" /\ \A i \in 1..Len(file.json) : WellFormedRecord(file.json[i])}

\* The phrase texts and typed answers of the writing check: every text over an
\* upper-case letter (its lower-case form appears once normalized), a space, a
\* tab and a punctuation character.
Alphabet == {"B", " ", "\t", "-"}
TextsUpTo(n) == UNION {[1..k -> Alphabet] : k \in 0..n}
WritingTexts == TextsUpTo(MaxTextLen)
WritingInputs == TextsUpTo(MaxInputLen)
\* Long phrases: n times the word a, and the same with b as the last word.
WordsOfA(n) == [i \in 1..(2 * n - 1) |-> IF i % 2 = 1 THEN "a" ELSE " "]
WordsOfAThenB(n) == [i \in 1..(2 * n - 1) |-> IF i = 2 * n - 1 THEN "B" ELSE IF i % 2 = 1 THEN "a" ELSE " "]
WordCounts == {1, 2, 3, 4, MaxWords - 1, MaxWords}
ScoreTexts == {WordsOfA(n) : n \in WordCounts}
ScoreInputs == {WordsOfA(n) : n \in WordCounts} \cup {WordsOfAThenB(n) : n \in WordCounts}

\* --------------------------------------------------------------- variables
VARIABLES
  targetText, status, difficulty, result, errorMessage,
  isTtsLoading, isGenerating, playingWord,
  savedPhrases, phraseNote, showSaveModal, showSettings, exercise,
  mediaRecorderRef, audioChunksRef,
  lsPhrases, lsDifficulty,
  startRecordingMemo,
  deviceRequests, recorders, stopEvents, analyses, generateRequests, fileReaders,
  ttsRequests, downloads,
  nStarts, nextUuid, now, nImports, nChecks,
  writingPass, ev

sessionVars == <<targetText, status, result, errorMessage>>
audioVars == <<isTtsLoading, playingWord, ttsRequests>>
modalVars == <<phraseNote, showSaveModal, showSettings>>
libraryVars == <<savedPhrases, lsPhrases>>
recorderVars == <<mediaRecorderRef, audioChunksRef, deviceRequests, recorders, stopEvents, nStarts>>
idVars == <<nextUuid, now, nChecks>>
importVars == <<fileReaders, nImports, downloads>>

vars == <<targetText, status, difficulty, result, errorMessage,
          isTtsLoading, isGenerating, playingWord,
          savedPhrases, phraseNote, showSaveModal, showSettings, exercise,
          mediaRecorderRef, audioChunksRef, lsPhrases, lsDifficulty,
          startRecordingMemo,
          deviceRequests, recorders, stopEvents, analyses, generateRequests, fileReaders,
          ttsRequests, downloads, nStarts, nextUuid, now, nImports, nChecks, writingPass, ev>>

\* ---------------------------------------------------------------- closures
\* What handleProcessing of one render reads: targetText, difficulty, exercise
\* and, through updatePhraseScore, savedPhrases.
Closure(t, d, e, l) == [targetText |-> t, difficulty |-> d, exercise |-> e, savedPhrases |-> l]

\* useCallback(..., [targetText]): the memoised startRecording is replaced by
\* the closure of the new render exactly when targetText differs.
Memo(t, d, e, l) == IF t # targetText THEN Closure(t, d, e, l) ELSE startRecordingMemo

\* writingPass is the history of the drill's pass over one phrase: set by the
\* writing check to the phrase's id and the practiceCount its library entries
\* had before, and to the recording started next; cleared by every other
\* change of the library or of the drill.
\*
\* ev is the record of the step just taken: the handler that ran ("click" for the
\* handlers that only set interface state), the updatePhraseScore calls it
\* made, as <<id, score>>, and the alerts it raised.
Event(op, calls, alerts) == [op |-> op, calls |-> calls, alerts |-> alerts, merged |-> 0]
\* The same for a confirmed import, with the number of records it merged.
ImportEvent(n) == [op |-> "importDone", calls |-> <<>>, alerts |-> <<"success">>, merged |-> n]

\* ----------------------------------------------------------- initial state
\* The state once the component is mounted and its mount effect has read the
\* store: stored is the value of the fluentify_phrases key, uuids the number of
\* identifiers crypto.randomUUID has given out before.  The memoised
\* startRecording is the closure of the first render, made before the mount
\* effect ran.
Mounted(stored, uuids) ==
  /\ targetText = DefaultTargetText
  /\ status = "IDLE"
  /\ difficulty = "Medium"
  /\ result = None
  /\ errorMessage = ""
  /\ isTtsLoading = FALSE
  /\ isGenerating = FALSE
  /\ playingWord = None
  /\ savedPhrases = (IF Has(stored) THEN JSONparse(Val(stored)) ELSE <<>>)
  /\ phraseNote = <<>>
  /\ showSaveModal = FALSE
  /\ showSettings = FALSE
  /\ exercise = None
  /\ mediaRecorderRef = None
  /\ audioChunksRef = <<>>
  /\ lsPhrases = stored
  /\ lsDifficulty = Some("Medium")
  /\ startRecordingMemo = Closure(DefaultTargetText, "Medium", None, <<>>)
  /\ deviceRequests = {}
  /\ recorders = {}
  /\ stopEvents = {}
  /\ analyses = {}
  /\ generateRequests = 0
  /\ fileReaders = {}
  /\ ttsRequests = {}
  /\ downloads = {}
  /\ nStarts = 0
  /\ nextUuid = uuids + 1
  /\ now = uuids + 1
  /\ nImports = 0
  /\ nChecks = 0
  /\ writingPass = None
  /\ ev = Event("mount", <<>>, <<>>)

\* The first visit: nothing is stored.
Init == Mounted(None, 0)

\* The state of the first render of a page load, before its effects ran: the
\* useState defaults, with the store as the earlier visits left it.
Constructed(storedPhrases, storedDifficulty, uuids) ==
  /\ targetText = DefaultTargetText
  /\ status = "IDLE"
  /\ difficulty = "Medium"
  /\ result = None
  /\ errorMessage = ""
  /\ isTtsLoading = FALSE
  /\ isGenerating = FALSE
  /\ playingWord = None
  /\ savedPhrases = <<>>
  /\ phraseNote = <<>>
  /\ showSaveModal = FALSE
  /\ showSettings = FALSE
  /\ exercise = None
  /\ mediaRecorderRef = None
  /\ audioChunksRef = <<>>
  /\ lsPhrases = storedPhrases
  /\ lsDifficulty = storedDifficulty
  /\ startRecordingMemo = Closure(DefaultTargetText, "Medium", None, <<>>)
  /\ deviceRequests = {}
  /\ recorders = {}
  /\ stopEvents = {}
  /\ analyses = {}
  /\ generateRequests = 0
  /\ fileReaders = {}
  /\ ttsRequests = {}
  /\ downloads = {}
  /\ nStarts = 0
  /\ nextUuid = uuids + 1
  /\ now = uuids + 1
  /\ nImports = 0
  /\ nChecks = 0
  /\ writingPass = None
  /\ ev = Event("construct", <<>>, <<>>)


\* A later visit: the store holds a library saved by earlier visits.
StoredPhrase1 == [id |-> 1, text |-> <<"a">>, note |-> <<>>, timestamp |-> 1, practiceCount |-> 0]
StoredPhrase2 == [id |-> 2, text |-> <<"a">>, note |-> <<>>, timestamp |-> 2, lastScore |-> 80, practiceCount |-> 2]
StoredPhrase3 == [id |-> 3, text |-> <<"c">>, note |-> <<"n">>, timestamp |-> 3, practiceCount |-> 0]
StoredPhrase4 == [id |-> 4, text |-> <<"b">>, note |-> <<>>, timestamp |-> 4, lastScore |-> 50, practiceCount |-> 1]
\* A phrase whose score an import or an analysis put below 0.
StoredPhrase5 == [id |-> 5, text |-> <<"b">>, note |-> <<>>, timestamp |-> 5, lastScore |-> -5, practiceCount |-> 1]
StoredLibraries == {<<StoredPhrase1>>}
\* The same text saved twice, and a text no imported file holds.
StoredDuplicates == {<<StoredPhrase3, StoredPhrase2, StoredPhrase1>>}
InitStored == \E stored \in StoredLibraries : Mounted(Some(stored), Len(stored))
\* A page load with any difficulty stored, or none.
InitConstructed ==
  \E sd \in {None} \cup {Some(d) : d \in Difficulty} : Constructed(Some(<<StoredPhrase1>>), sd, 1)
\* A library of one phrase with a given text, saved or imported earlier.
StoredPhraseOf(t) == [id |-> 1, text |-> t, note |-> <<>>, timestamp |-> 1, practiceCount |-> 0]
InitWriting == \E t \in WritingTexts : Mounted(Some(<<StoredPhraseOf(t)>>), 1)
InitScore == \E t \in ScoreTexts : Mounted(Some(<<StoredPhraseOf(t)>>), 1)
\* The libraries drilled: scores absent, equal, different and below 0.
StoredForDrill ==
  StoredDuplicates \cup { <<StoredPhrase2, StoredPhrase4, StoredPhrase3>>,
                           <<StoredPhrase1, StoredPhrase5>> }
InitDrill == Init \/ \E stored \in StoredForDrill : Mounted(Some(stored), 5)
\* A library of two phrases, drilled in one order only, to which one more
\* phrase can be added.
InitSnapshot == Mounted(Some(<<StoredPhrase4, StoredPhrase3>>), MaxAdds - 1)
\* The libraries imported into: that one, and one without a repeated text.
StoredForImport == StoredDuplicates \cup {<<StoredPhrase3, StoredPhrase1>>}
InitImport == \E stored \in StoredForImport : Mounted(Some(stored), 3)

\* ----------------------------------------------------------- phrase library
\* updatePhraseScore: the library of the calling closure with the entry of the
\* given id rescored; (p.practiceCount || 0) + 1.
updatePhraseScore(lib, id, score) ==
  [i \in 1..Len(lib) |->
     IF lib[i].id = id
     THEN [lib[i] EXCEPT !.lastScore = score,
                         !.practiceCount =
                            Some((IF Has(lib[i].practiceCount) THEN Val(lib[i].practiceCount) ELSE 0) + 1)]
     ELSE lib[i]]

\* The same with the id as the Map's key.
UniqueById(merged) ==
  LET first == {i \in 1..Len(merged) : \A j \in 1..(i - 1) : merged[j].id # merged[i].id}
      last(i) == CHOOSE k \in 1..Len(merged) :
                   /\ merged[k].id = merged[i].id
                   /\ \A j \in (k + 1)..Len(merged) : merged[j].id # merged[i].id
      idx == SortedSeq(first)
  IN [n \in 1..Len(idx) |-> merged[last(idx[n])]]

\* Array.from(new Map(merged.map(item => [item.text, item])).values()): a key
\* keeps the position of its first occurrence and the value of its last one.
UniqueByText(merged) ==
  LET first == {i \in 1..Len(merged) : \A j \in 1..(i - 1) : merged[j].text # merged[i].text}
      last(i) == CHOOSE k \in 1..Len(merged) :
                   /\ merged[k].text = merged[i].text
                   /\ \A j \in (k + 1)..Len(merged) : merged[j].text # merged[i].text
      idx == SortedSeq(first)
  IN [n \in 1..Len(idx) |-> merged[last(idx[n])]]

\* The score key of the drill's comparator: a.lastScore ?? -1.
ScoreKey(p) == IF Has(p.lastScore) THEN Val(p.lastScore) ELSE -1

\* [...savedPhrases].sort(cmp), where cmp orders by ScoreKey and answers at
\* random for equal keys: any arrangement in ascending key order.
SortedByScore(lib) ==
  { [i \in 1..Len(lib) |-> lib[perm[i]]] :
      perm \in { q \in [1..Len(lib) -> 1..Len(lib)] :
                   /\ \A i, j \in 1..Len(lib) : i # j => q[i] # q[j]
                   /\ \A i, j \in 1..Len(lib) : i < j => ScoreKey(lib[q[i]]) <= ScoreKey(lib[q[j]]) } }

\* ------------------------------------------------------------ writing check
\* checkWriting's comparison: the diff and the score for a phrase text and the
\* typed answer.
WritingDiff(text, userInput) ==
  LET targetWords == SplitSpace(normalizeText(text))
      userWords == SplitSpace(normalizeText(userInput))
      original == SplitSpace(text)
  IN [idx \in 1..Len(targetWords) |->
        [word |-> IF idx <= Len(original) /\ original[idx] # <<>> THEN original[idx] ELSE targetWords[idx],
         isCorrect |-> idx <= Len(userWords) /\ userWords[idx] = targetWords[idx]]]

\* Math.round((correctCount / targetWords.length) * 100)
WritingScore(diff) ==
  LET correctCount == Cardinality({i \in 1..Len(diff) : diff[i].isCorrect})
  IN (2 * 100 * correctCount + Len(diff)) \div (2 * Len(diff))

\* ------------------------------------------------------------- the interface
\* The modals are fixed full-screen overlays above the page.
PageClickable == ~showSaveModal /\ ~showSettings
MainInterface == status # "EXERCISE" /\ PageClickable
ExerciseInterface == status = "EXERCISE" /\ Has(exercise) /\ PageClickable
CurrentPhrase(e) == e.shuffledPhrases[e.currentPhraseIndex + 1]

\* Rendering the result panel reads result.mispronouncedWords.length: with that
\* field missing the render throws and the component tree is unmounted, after
\* which no control of the page can be used and no completion's state update
\* takes effect.
RenderThrows == status = "RESULT" /\ Has(result) /\ ~Has(Val(result).mispronouncedWords)
\* No control can be used either before the mount effects of a page load ran.
Interactive == ~RenderThrows /\ ev.op # "construct"
RecordButtonShown ==
  \/ MainInterface /\ status = "IDLE"
  \/ MainInterface /\ status = "RESULT" /\ Has(result)
  \/ /\ ExerciseInterface
     /\ Val(exercise).step \in {"RESULT", "SPEAKING"}
     /\ Has(Val(exercise).writingResult)
     /\ ~Has(result)
NextButtonShown ==
  /\ ExerciseInterface
  /\ Val(exercise).step \in {"RESULT", "SPEAKING"}
  /\ Has(Val(exercise).writingResult)
  /\ status # "ANALYZING"
  /\ Has(result)

\* --------------------------------------------------------- session actions
\* The target-text box: onChange={(e) => setTargetText(e.target.value)},
\* disabled while RECORDING or ANALYZING.
SetTargetText(t) ==
  /\ Interactive /\ MainInterface
  /\ status \notin {"RECORDING", "ANALYZING"}
  /\ t # targetText
  /\ targetText' = t
  /\ startRecordingMemo' = Memo(t, difficulty, exercise, savedPhrases)
  /\ ev' = Event("click", <<>>, <<>>)
  /\ UNCHANGED writingPass
  /\ UNCHANGED <<status, difficulty, result, errorMessage, audioVars, isGenerating, libraryVars,
                 modalVars, exercise, recorderVars, lsDifficulty, analyses, generateRequests,
                 importVars, idVars>>

\* Header onGoHome
GoHome ==
  /\ Interactive /\ PageClickable
  /\ status' = "IDLE"
  /\ exercise' = None
  /\ result' = None
  /\ ev' = Event("goHome", <<>>, <<>>)
  /\ writingPass' = None
  /\ UNCHANGED <<targetText, difficulty, errorMessage, audioVars, isGenerating, libraryVars,
                 modalVars, recorderVars, lsDifficulty, startRecordingMemo, analyses,
                 generateRequests, importVars, idVars>>

\* Header setDifficulty, with the effect that stores the difficulty.
SetDifficulty(d) ==
  /\ Interactive /\ PageClickable
  /\ d # difficulty
  /\ difficulty' = d
  /\ lsDifficulty' = Some(d)
  /\ ev' = Event("click", <<>>, <<>>)
  /\ UNCHANGED writingPass
  /\ UNCHANGED <<sessionVars, audioVars, isGenerating, libraryVars, modalVars, exercise,
                 recorderVars, startRecordingMemo, analyses, generateRequests, importVars, idVars>>

\* startRecording up to its await: the memoised closure asks for the device.
StartRecording ==
  /\ Interactive /\ RecordButtonShown
  /\ nStarts < MaxStarts
  /\ nStarts' = nStarts + 1
  /\ deviceRequests' = deviceRequests \cup {[n |-> nStarts + 1, cl |-> startRecordingMemo]}
  /\ ev' = Event("startRecording", <<>>, <<>>)
  /\ writingPass' = IF Has(writingPass) /\ Val(writingPass).request = 0
                     THEN Some([Val(writingPass) EXCEPT !.request = nStarts + 1])
                     ELSE writingPass
  /\ UNCHANGED <<sessionVars, difficulty, audioVars, isGenerating, libraryVars, modalVars,
                 exercise, mediaRecorderRef, audioChunksRef, recorders, stopEvents, lsDifficulty,
                 startRecordingMemo, analyses, generateRequests, importVars, idVars>>

\* startRecording after getUserMedia resolved: a new recorder is started.
DeviceGranted(q) ==
  /\ Interactive
  /\ q \in deviceRequests
  /\ deviceRequests' = deviceRequests \ {q}
  /\ recorders' = recorders \cup {q}
  /\ mediaRecorderRef' = Some(q.n)
  /\ audioChunksRef' = <<>>
  /\ status' = "RECORDING"
  /\ result' = None
  /\ errorMessage' = ""
  /\ ev' = Event("deviceGranted", <<>>, <<>>)
  /\ UNCHANGED writingPass
  /\ UNCHANGED <<targetText, difficulty, audioVars, isGenerating, libraryVars, modalVars,
                 exercise, stopEvents, nStarts, lsDifficulty, startRecordingMemo, analyses,
                 generateRequests, importVars, idVars>>

\* startRecording's catch: getUserMedia rejected.
DeviceDenied(q) ==
  /\ Interactive
  /\ q \in deviceRequests
  /\ deviceRequests' = deviceRequests \ {q}
  /\ errorMessage' = "microphone"
  /\ status' = "ERROR"
  /\ ev' = Event("deviceDenied", <<>>, <<>>)
  /\ UNCHANGED writingPass
  /\ UNCHANGED <<targetText, result, difficulty, audioVars, isGenerating, libraryVars, modalVars,
                 exercise, mediaRecorderRef, audioChunksRef, recorders, stopEvents, nStarts,
                 lsDifficulty, startRecordingMemo, analyses, generateRequests, importVars, idVars>>

\* stopRecording: stops the recorder the ref holds.  The stop button is only
\* rendered in the main interface while RECORDING; stop() on a recorder that
\* is already inactive throws and changes nothing.
StopRecording ==
  /\ Interactive /\ MainInterface /\ status = "RECORDING"
  /\ Has(mediaRecorderRef)
  /\ \E r \in recorders :
       /\ r.n = Val(mediaRecorderRef)
       /\ recorders' = recorders \ {r}
       /\ stopEvents' = stopEvents \cup {r}
  /\ ev' = Event("stopRecording", <<>>, <<>>)
  /\ UNCHANGED writingPass
  /\ UNCHANGED <<sessionVars, difficulty, audioVars, isGenerating, libraryVars, modalVars,
                 exercise, mediaRecorderRef, audioChunksRef, deviceRequests, nStarts, lsDifficulty,
                 startRecordingMemo, analyses, generateRequests, importVars, idVars>>

\* The recorder's dataavailable and stop events: the data is pushed onto the
\* chunks and handleProcessing of the recorder's closure starts the analysis.
RecorderOnStop(r) ==
  /\ Interactive
  /\ r \in stopEvents
  /\ stopEvents' = stopEvents \ {r}
  /\ audioChunksRef' = Append(audioChunksRef, r.n)
  /\ status' = "ANALYZING"
  /\ analyses' = analyses \cup
       {[n |-> r.n, cl |-> r.cl, audio |-> Append(audioChunksRef, r.n)]}
  /\ ev' = Event("handleProcessing", <<>>, <<>>)
  /\ UNCHANGED writingPass
  /\ UNCHANGED <<targetText, result, errorMessage, difficulty, audioVars, isGenerating,
                 libraryVars, modalVars, exercise, mediaRecorderRef, deviceRequests, recorders,
                 nStarts, lsDifficulty, startRecordingMemo, generateRequests, importVars, idVars>>

\* handleProcessing after analyzeSpeech resolved.
AnalysisSuccess(a, analysis) ==
  /\ Interactive
  /\ a \in analyses
  /\ analyses' = analyses \ {a}
  /\ result' = Some(analysis)
  /\ status' = "RESULT"
  /\ IF Has(a.cl.exercise)
     THEN LET currentId == CurrentPhrase(Val(a.cl.exercise)).id
              updated == updatePhraseScore(a.cl.savedPhrases, currentId, analysis.accuracyScore)
          IN /\ savedPhrases' = updated
             /\ lsPhrases' = Some(JSONstringify(updated))
             /\ ev' = Event("analysisSuccess", << <<currentId, analysis.accuracyScore>> >>, <<>>)
             /\ writingPass' = None
     ELSE /\ UNCHANGED libraryVars
          /\ ev' = Event("analysisSuccess", <<>>, <<>>)
          /\ UNCHANGED writingPass
  /\ UNCHANGED <<targetText, errorMessage, difficulty, audioVars, isGenerating, modalVars,
                 exercise, recorderVars, lsDifficulty, startRecordingMemo, generateRequests,
                 importVars, idVars>>

\* handleProcessing's catch: blobToBase64 or analyzeSpeech rejected.
AnalysisFail(a) ==
  /\ Interactive
  /\ a \in analyses
  /\ analyses' = analyses \ {a}
  /\ errorMessage' = "analysis"
  /\ status' = "ERROR"
  /\ ev' = Event("analysisFail", <<>>, <<>>)
  /\ UNCHANGED writingPass
  /\ UNCHANGED <<targetText, result, difficulty, audioVars, isGenerating, libraryVars, modalVars,
                 exercise, recorderVars, lsDifficulty, startRecordingMemo, generateRequests,
                 importVars, idVars>>

\* The "Xong" button of the result panel.
DismissResult ==
  /\ Interactive /\ MainInterface /\ status = "RESULT" /\ Has(result)
  /\ status' = "IDLE"
  /\ ev' = Event("click", <<>>, <<>>)
  /\ UNCHANGED writingPass
  /\ UNCHANGED <<targetText, result, errorMessage, difficulty, audioVars, isGenerating,
                 libraryVars, modalVars, exercise, recorderVars, lsDifficulty, startRecordingMemo,
                 analyses, generateRequests, importVars, idVars>>

\* handleGenerateText up to its await.
GenerateText ==
  /\ Interactive /\ MainInterface /\ status # "RECORDING"
  /\ ~isGenerating
  /\ isGenerating' = TRUE
  /\ errorMessage' = ""
  /\ generateRequests' = generateRequests + 1
  /\ ev' = Event("click", <<>>, <<>>)
  /\ UNCHANGED writingPass
  /\ UNCHANGED <<targetText, status, result, difficulty, audioVars, libraryVars, modalVars,
                 exercise, recorderVars, lsDifficulty, startRecordingMemo, analyses, importVars,
                 idVars>>

\* handleGenerateText after generatePracticePhrase resolved.
GenerateDone(phrase) ==
  /\ Interactive
  /\ generateRequests > 0
  /\ generateRequests' = generateRequests - 1
  /\ targetText' = phrase
  /\ result' = None
  /\ status' = "IDLE"
  /\ isGenerating' = FALSE
  /\ startRecordingMemo' = Memo(phrase, difficulty, exercise, savedPhrases)
  /\ ev' = Event("generateDone", <<>>, <<>>)
  /\ UNCHANGED writingPass
  /\ UNCHANGED <<errorMessage, difficulty, audioVars, libraryVars, modalVars, exercise,
                 recorderVars, lsDifficulty, analyses, importVars, idVars>>

\* handleGenerateText's catch.
GenerateFail ==
  /\ Interactive
  /\ generateRequests > 0
  /\ generateRequests' = generateRequests - 1
  /\ errorMessage' = "generate"
  /\ isGenerating' = FALSE
  /\ ev' = Event("generateFail", <<>>, <<>>)
  /\ UNCHANGED writingPass
  /\ UNCHANGED <<targetText, status, result, difficulty, audioVars, libraryVars, modalVars,
                 exercise, recorderVars, lsDifficulty, startRecordingMemo, analyses, importVars,
                 idVars>>

\* ---------------------------------------------------------- audio actions
\* ttsRequests holds the handlePlayAudio calls under way: for handleListen or
\* for handlePlayWord, waiting for textToSpeech and the decoding, or playing.
\*
\* A number that no handlePlayAudio call under way has.
FreeRequest == CHOOSE n \in 1..(Cardinality(ttsRequests) + 1) : \A rq \in ttsRequests : rq.n # n

\* if (playingWord) and disabled={!!playingWord}: null and the empty string
\* are falsy.
Truthy(word) == Has(word) /\ Val(word) # <<>>

\* handleListen up to its await; the button is disabled while RECORDING.
Listen ==
  /\ Interactive /\ MainInterface /\ status # "RECORDING"
  /\ trim(targetText) # <<>> /\ ~isTtsLoading
  /\ Cardinality(ttsRequests) < MaxPlays
  /\ isTtsLoading' = TRUE
  /\ ttsRequests' = ttsRequests \cup {[n |-> FreeRequest, for |-> "listen", playing |-> FALSE]}
  /\ ev' = Event("click", <<>>, <<>>)
  /\ UNCHANGED writingPass
  /\ UNCHANGED <<sessionVars, difficulty, playingWord, isGenerating, libraryVars, modalVars,
                 exercise, recorderVars, lsDifficulty, startRecordingMemo, analyses,
                 generateRequests, importVars, idVars>>

\* handlePlayWord up to its await, from a word button of the result panel.
PlayWord(word) ==
  /\ Interactive /\ MainInterface /\ status = "RESULT" /\ Has(result)
  /\ word \in SeqToSet(Val(Val(result).mispronouncedWords))
  /\ ~Truthy(playingWord)
  /\ Cardinality(ttsRequests) < MaxPlays
  /\ playingWord' = Some(word)
  /\ ttsRequests' = ttsRequests \cup {[n |-> FreeRequest, for |-> "word", playing |-> FALSE]}
  /\ ev' = Event("click", <<>>, <<>>)
  /\ UNCHANGED writingPass
  /\ UNCHANGED <<sessionVars, difficulty, isTtsLoading, isGenerating, libraryVars, modalVars,
                 exercise, recorderVars, lsDifficulty, startRecordingMemo, analyses,
                 generateRequests, importVars, idVars>>

\* onEnd of a handlePlayAudio call: () => setIsTtsLoading(false) for
\* handleListen, () => setPlayingWord(null) for handlePlayWord.
OnEnd(rq) ==
  /\ isTtsLoading' = (IF rq.for = "listen" THEN FALSE ELSE isTtsLoading)
  /\ playingWord' = (IF rq.for = "word" THEN None ELSE playingWord)

\* A failure that is logged only.
SynthesisFailLogged(rq) ==
  /\ Interactive
  /\ rq \in ttsRequests /\ ~rq.playing
  /\ ttsRequests' = ttsRequests \ {rq}
  /\ UNCHANGED <<isTtsLoading, playingWord>>
  /\ ev' = Event(IF rq.for = "listen" THEN "listenFailed" ELSE "playWordFailed", <<>>, <<>>)
  /\ UNCHANGED writingPass
  /\ UNCHANGED <<sessionVars, difficulty, isGenerating, libraryVars, modalVars,
                 exercise, recorderVars, lsDifficulty, startRecordingMemo, analyses,
                 generateRequests, importVars, idVars>>

\* handlePlayAudio's catch: textToSpeech rejected, or resuming the audio
\* context or decoding the audio threw; the failure is logged and onEnd called.
SynthesisFail(rq) ==
  /\ Interactive
  /\ rq \in ttsRequests /\ ~rq.playing
  /\ ttsRequests' = ttsRequests \ {rq}
  /\ OnEnd(rq)
  /\ ev' = Event(IF rq.for = "listen" THEN "listenFailed" ELSE "playWordFailed", <<>>, <<>>)
  /\ UNCHANGED writingPass
  /\ UNCHANGED <<sessionVars, difficulty, isGenerating, libraryVars, modalVars,
                 exercise, recorderVars, lsDifficulty, startRecordingMemo, analyses,
                 generateRequests, importVars, idVars>>

\* handlePlayAudio's source.start(): the audio plays, onEnd waits for its end.
SynthesisPlay(rq) ==
  /\ Interactive
  /\ rq \in ttsRequests /\ ~rq.playing
  /\ ttsRequests' = (ttsRequests \ {rq}) \cup {[rq EXCEPT !.playing = TRUE]}
  /\ ev' = Event("play", <<>>, <<>>)
  /\ UNCHANGED writingPass
  /\ UNCHANGED <<sessionVars, difficulty, isTtsLoading, playingWord, isGenerating, libraryVars,
                 modalVars, exercise, recorderVars, lsDifficulty, startRecordingMemo, analyses,
                 generateRequests, importVars, idVars>>

\* source.onended
PlaybackEnded(rq) ==
  /\ Interactive
  /\ rq \in ttsRequests /\ rq.playing
  /\ ttsRequests' = ttsRequests \ {rq}
  /\ OnEnd(rq)
  /\ ev' = Event("playbackEnded", <<>>, <<>>)
  /\ UNCHANGED writingPass
  /\ UNCHANGED <<sessionVars, difficulty, isGenerating, libraryVars, modalVars,
                 exercise, recorderVars, lsDifficulty, startRecordingMemo, analyses,
                 generateRequests, importVars, idVars>>

\* --------------------------------------------------------- library actions
\* The save button of the main interface.
OpenSaveModal ==
  /\ Interactive /\ MainInterface
  /\ trim(targetText) # <<>> /\ status # "RECORDING"
  /\ showSaveModal' = TRUE
  /\ ev' = Event("click", <<>>, <<>>)
  /\ UNCHANGED writingPass
  /\ UNCHANGED <<sessionVars, difficulty, audioVars, isGenerating, libraryVars, phraseNote,
                 showSettings, exercise, recorderVars, lsDifficulty, startRecordingMemo, analyses,
                 generateRequests, importVars, idVars>>

SetPhraseNote(n) ==
  /\ Interactive /\ showSaveModal
  /\ n # phraseNote
  /\ phraseNote' = n
  /\ ev' = Event("click", <<>>, <<>>)
  /\ UNCHANGED writingPass
  /\ UNCHANGED <<sessionVars, difficulty, audioVars, isGenerating, libraryVars, showSaveModal,
                 showSettings, exercise, recorderVars, lsDifficulty, startRecordingMemo, analyses,
                 generateRequests, importVars, idVars>>

CloseSaveModal ==
  /\ Interactive /\ showSaveModal
  /\ showSaveModal' = FALSE
  /\ ev' = Event("click", <<>>, <<>>)
  /\ UNCHANGED writingPass
  /\ UNCHANGED <<sessionVars, difficulty, audioVars, isGenerating, libraryVars, phraseNote,
                 showSettings, exercise, recorderVars, lsDifficulty, startRecordingMemo, analyses,
                 generateRequests, importVars, idVars>>

\* handleSavePhrase
\* crypto.randomUUID(): an id that no stored or imported phrase carries.
Uuid(n) == 100 + n

\* The new phrase behind the others.
AddPhraseLast(lib, id, text, note, timestamp) ==
  lib \o <<SavedPhrase(Some(id), Some(text), Some(note), Some(timestamp), None, Some(0))>>

\* handleSavePhrase's [newPhrase, ...savedPhrases].
AddPhrase(lib, id, text, note, timestamp) ==
  <<SavedPhrase(Some(id), Some(text), Some(note), Some(timestamp), None, Some(0))>> \o lib

\* handleSavePhrase
handleSavePhrase ==
  /\ nextUuid <= MaxAdds
  /\ IF trim(targetText) = <<>>
     THEN /\ UNCHANGED <<libraryVars, phraseNote, showSaveModal, idVars>>
          /\ ev' = Event("savePhraseBlank", <<>>, <<>>)
          /\ UNCHANGED writingPass
     ELSE LET updated == AddPhrase(savedPhrases, Uuid(nextUuid), trim(targetText), trim(phraseNote), now)
          IN /\ savedPhrases' = updated
             /\ lsPhrases' = Some(JSONstringify(updated))
             /\ phraseNote' = <<>>
             /\ showSaveModal' = FALSE
             /\ nextUuid' = nextUuid + 1
             /\ now' = now + 1
             /\ UNCHANGED nChecks
             /\ ev' = Event("savePhrase", <<>>, <<>>)
             /\ writingPass' = None
  /\ UNCHANGED <<sessionVars, difficulty, audioVars, isGenerating, showSettings, exercise,
                 recorderVars, lsDifficulty, startRecordingMemo, analyses, generateRequests,
                 importVars>>

\* The save modal's button.
SavePhrase == Interactive /\ showSaveModal /\ handleSavePhrase

\* deleteSavedPhrase, the confirmation accepted.
deleteSavedPhrase(i) ==
  /\ i \in 1..Len(savedPhrases)
  /\ LET updated == SelectSeq(savedPhrases, LAMBDA p : p.id # savedPhrases[i].id)
     IN /\ savedPhrases' = updated
        /\ lsPhrases' = Some(JSONstringify(updated))
  /\ ev' = Event("deleteSavedPhrase", <<>>, <<>>)
  /\ writingPass' = None
  /\ UNCHANGED <<sessionVars, difficulty, audioVars, isGenerating, modalVars, exercise,
                 recorderVars, lsDifficulty, startRecordingMemo, analyses, generateRequests,
                 importVars, idVars>>

\* The delete button of a library entry.
DeleteSavedPhrase(i) == Interactive /\ MainInterface /\ deleteSavedPhrase(i)

\* selectSavedPhrase
SelectSavedPhrase(i) ==
  /\ Interactive /\ MainInterface
  /\ i \in 1..Len(savedPhrases)
  /\ Has(savedPhrases[i].text)
  /\ targetText' = Val(savedPhrases[i].text)
  /\ result' = None
  /\ status' = "IDLE"
  /\ exercise' = None
  /\ startRecordingMemo' = Memo(Val(savedPhrases[i].text), difficulty, None, savedPhrases)
  /\ ev' = Event("selectSavedPhrase", <<>>, <<>>)
  /\ writingPass' = None
  /\ UNCHANGED <<errorMessage, difficulty, audioVars, isGenerating, libraryVars, modalVars,
                 recorderVars, lsDifficulty, analyses, generateRequests, importVars, idVars>>

OpenSettings ==
  /\ Interactive /\ MainInterface
  /\ showSettings' = TRUE
  /\ ev' = Event("click", <<>>, <<>>)
  /\ UNCHANGED writingPass
  /\ UNCHANGED <<sessionVars, difficulty, audioVars, isGenerating, libraryVars, phraseNote,
                 showSaveModal, exercise, recorderVars, lsDifficulty, startRecordingMemo, analyses,
                 generateRequests, importVars, idVars>>

CloseSettings ==
  /\ Interactive /\ showSettings
  /\ showSettings' = FALSE
  /\ ev' = Event("click", <<>>, <<>>)
  /\ UNCHANGED writingPass
  /\ UNCHANGED <<sessionVars, difficulty, audioVars, isGenerating, libraryVars, phraseNote,
                 showSaveModal, exercise, recorderVars, lsDifficulty, startRecordingMemo, analyses,
                 generateRequests, importVars, idVars>>

\* A clear-all that empties the library in memory and leaves the stored key.
ClearMemoryOnly ==
  /\ Interactive /\ showSettings
  /\ savedPhrases' = <<>>
  /\ showSettings' = FALSE
  /\ ev' = Event("clearLibrary", <<>>, <<>>)
  /\ writingPass' = None
  /\ UNCHANGED <<sessionVars, difficulty, audioVars, isGenerating, lsPhrases, phraseNote,
                 showSaveModal, exercise, recorderVars, lsDifficulty, startRecordingMemo, analyses,
                 generateRequests, importVars, idVars>>

\* The clear-all button of the settings modal, the confirmation accepted.
ClearLibrary ==
  /\ Interactive /\ showSettings
  /\ savedPhrases' = <<>>
  /\ lsPhrases' = None
  /\ showSettings' = FALSE
  /\ ev' = Event("clearLibrary", <<>>, <<>>)
  /\ writingPass' = None
  /\ UNCHANGED <<sessionVars, difficulty, audioVars, isGenerating, phraseNote, showSaveModal,
                 exercise, recorderVars, lsDifficulty, startRecordingMemo, analyses,
                 generateRequests, importVars, idVars>>

\* handleExport: the library as JSON text, saved as a file by the browser.
ExportedFile(lib) == [kind |-> "array", json |-> JSONstringify(lib)]

\* The export button of the settings modal.
Export ==
  /\ Interactive /\ showSettings
  /\ Cardinality(downloads) < MaxExports
  /\ ExportedFile(savedPhrases) \notin downloads
  /\ downloads' = downloads \cup {ExportedFile(savedPhrases)}
  /\ ev' = Event("export", <<>>, <<>>)
  /\ UNCHANGED writingPass
  /\ UNCHANGED <<sessionVars, difficulty, audioVars, isGenerating, libraryVars, modalVars,
                 exercise, recorderVars, lsDifficulty, startRecordingMemo, analyses,
                 generateRequests, fileReaders, nImports, idVars>>

\* handleImport up to reader.readAsText: the reader's onload is a closure of
\* the render in which the file was chosen.
ImportFile(file) ==
  /\ Interactive /\ showSettings
  /\ nImports < MaxImports
  /\ nImports' = nImports + 1
  /\ fileReaders' = fileReaders \cup {[n |-> nImports + 1, file |-> file, savedPhrases |-> savedPhrases]}
  /\ UNCHANGED downloads
  /\ ev' = Event("click", <<>>, <<>>)
  /\ UNCHANGED writingPass
  /\ UNCHANGED <<sessionVars, difficulty, audioVars, isGenerating, libraryVars, modalVars,
                 exercise, recorderVars, lsDifficulty, startRecordingMemo, analyses,
                 generateRequests, idVars>>

\* What reader.onload stores for an array the user confirmed.
ImportMerge(json, lib) == UniqueByText(JSONparse(json) \o lib)

\* reader.onload: JSON.parse throws on text that is not JSON; a value that is
\* not an array is passed over; for an array the user answers the confirmation.
\* A throw inside the try block, before setSavedPhrases, ends in the catch's
\* alert.
ImportLoad(rd, confirmed) ==
  /\ Interactive
  /\ rd \in fileReaders
  /\ rd.file.kind = "array" \/ ~confirmed
  /\ fileReaders' = fileReaders \ {rd}
  /\ IF rd.file.kind = "text" \/ (confirmed /\ ThrowsOnText(rd.file.json))
     THEN /\ UNCHANGED libraryVars
          /\ ev' = Event("importFailed", <<>>, <<"format">>)
          /\ UNCHANGED writingPass
     ELSE IF rd.file.kind = "object"
     THEN /\ UNCHANGED libraryVars
          /\ ev' = Event("importIgnored", <<>>, <<>>)
          /\ UNCHANGED writingPass
     ELSE IF confirmed
     THEN LET unique == ImportMerge(rd.file.json, rd.savedPhrases)
          IN /\ savedPhrases' = unique
             /\ lsPhrases' = Some(JSONstringify(unique))
             /\ ev' = ImportEvent(Len(rd.file.json) + Len(rd.savedPhrases))
             /\ writingPass' = None
     ELSE /\ UNCHANGED libraryVars
          /\ ev' = Event("importDeclined", <<>>, <<>>)
          /\ UNCHANGED writingPass
  /\ UNCHANGED <<sessionVars, difficulty, audioVars, isGenerating, modalVars, exercise,
                 recorderVars, lsDifficulty, startRecordingMemo, analyses, generateRequests,
                 nImports, downloads, idVars>>

\* ----------------------------------------------------------- drill actions
ExerciseState(index, shuffled, step, userInput, writingResult) ==
  [currentPhraseIndex |-> index, shuffledPhrases |-> shuffled, step |-> step,
   userInput |-> userInput, writingResult |-> writingResult]

\* startExerciseMode: returns at once on an empty library.
startExerciseMode ==
  /\ IF Len(savedPhrases) = 0
     THEN /\ ev' = Event("startExerciseModeEmpty", <<>>, <<>>)
          /\ UNCHANGED <<sessionVars, exercise, startRecordingMemo, writingPass>>
     ELSE /\ \E shuffled \in SortedByScore(savedPhrases) :
               /\ Has(shuffled[1].text)
               /\ exercise' = Some(ExerciseState(0, shuffled, "WRITING", <<>>, None))
               /\ targetText' = Val(shuffled[1].text)
               /\ startRecordingMemo' =
                    Memo(Val(shuffled[1].text), difficulty,
                         Some(ExerciseState(0, shuffled, "WRITING", <<>>, None)), savedPhrases)
          /\ status' = "EXERCISE"
          /\ result' = None
          /\ ev' = Event("startExerciseMode", <<>>, <<>>)
          /\ writingPass' = None
          /\ UNCHANGED errorMessage
  /\ UNCHANGED <<difficulty, audioVars, isGenerating, libraryVars, modalVars,
                 recorderVars, lsDifficulty, analyses, generateRequests, importVars, idVars>>

\* The library's drill button, rendered for a non-empty library.
StartExerciseMode ==
  /\ Interactive /\ MainInterface
  /\ Len(savedPhrases) # 0
  /\ startExerciseMode

\* A quit that goes to the start page with the drill kept.
QuitKeepingDrill ==
  /\ Interactive /\ ExerciseInterface
  /\ status' = "IDLE"
  /\ ev' = Event("quitExercise", <<>>, <<>>)
  /\ writingPass' = None
  /\ UNCHANGED <<targetText, result, errorMessage, difficulty, audioVars, isGenerating,
                 libraryVars, modalVars, exercise, recorderVars, lsDifficulty, startRecordingMemo,
                 analyses, generateRequests, importVars, idVars>>

\* The two quit buttons of the exercise interface.
QuitExercise ==
  /\ Interactive /\ ExerciseInterface
  /\ status' = "IDLE"
  /\ exercise' = None
  /\ ev' = Event("quitExercise", <<>>, <<>>)
  /\ writingPass' = None
  /\ UNCHANGED <<targetText, result, errorMessage, difficulty, audioVars, isGenerating,
                 libraryVars, modalVars, recorderVars, lsDifficulty, startRecordingMemo, analyses,
                 generateRequests, importVars, idVars>>

\* The answer box of the writing step.
SetUserInput(u) ==
  /\ Interactive /\ ExerciseInterface
  /\ Val(exercise).step = "WRITING"
  /\ u # Val(exercise).userInput
  /\ exercise' = Some([Val(exercise) EXCEPT !.userInput = u])
  /\ ev' = Event("click", <<>>, <<>>)
  /\ UNCHANGED writingPass
  /\ UNCHANGED <<sessionVars, difficulty, audioVars, isGenerating, libraryVars, modalVars,
                 recorderVars, lsDifficulty, startRecordingMemo, analyses, generateRequests,
                 importVars, idVars>>

\* checkWriting, for a drill (it returns at once without one).
checkWriting ==
  /\ Has(exercise)
  /\ nChecks < MaxChecks
  /\ LET current == CurrentPhrase(Val(exercise))
         diff == WritingDiff(Val(current.text), Val(exercise).userInput)
         score == WritingScore(diff)
         updated == updatePhraseScore(savedPhrases, current.id, Some(score))
     IN /\ exercise' = Some([Val(exercise) EXCEPT !.writingResult = Some([score |-> score, diff |-> diff]),
                                                   !.step = "RESULT"])
        /\ savedPhrases' = updated
        /\ lsPhrases' = Some(JSONstringify(updated))
        /\ ev' = Event("checkWriting", << <<current.id, Some(score)>> >>, <<>>)
        /\ writingPass' = Some([id |-> current.id, request |-> 0,
                                 before |-> {p.practiceCount : p \in {q \in SeqToSet(savedPhrases) : q.id = current.id}}])
  /\ nChecks' = nChecks + 1
  /\ UNCHANGED <<sessionVars, difficulty, audioVars, isGenerating, modalVars, recorderVars,
                 lsDifficulty, startRecordingMemo, analyses, generateRequests, importVars,
                 nextUuid, now>>

\* The button of the writing step.
CheckWriting ==
  /\ Interactive /\ ExerciseInterface
  /\ Val(exercise).step = "WRITING"
  /\ checkWriting

\* The next index with what was typed and checked left in place.
AdvanceKeepingAnswer(e) ==
  IF e.currentPhraseIndex + 1 < Len(e.shuffledPhrases)
  THEN [e EXCEPT !.currentPhraseIndex = e.currentPhraseIndex + 1, !.step = "WRITING"]
  ELSE [e EXCEPT !.step = "FINISHED"]

\* The next phrase reached by dropping the one that was practised.
AdvanceDroppingPhrase(e) ==
  IF e.currentPhraseIndex + 1 < Len(e.shuffledPhrases)
  THEN [e EXCEPT !.shuffledPhrases = Tail(e.shuffledPhrases), !.step = "WRITING",
                 !.userInput = <<>>, !.writingResult = None]
  ELSE [e EXCEPT !.step = "FINISHED"]

\* The next index taken without looking at the length of the drill.
AdvancePastEnd(e) ==
  [e EXCEPT !.currentPhraseIndex = e.currentPhraseIndex + 1, !.step = "WRITING",
            !.userInput = <<>>, !.writingResult = None]

\* The exercise state nextExercisePhrase sets.
AdvanceExercise(e) ==
  IF e.currentPhraseIndex + 1 < Len(e.shuffledPhrases)
  THEN [e EXCEPT !.currentPhraseIndex = e.currentPhraseIndex + 1, !.step = "WRITING",
                 !.userInput = <<>>, !.writingResult = None]
  ELSE [e EXCEPT !.step = "FINISHED"]

\* nextExercisePhrase, for a drill (it returns at once without one).
nextExercisePhrase ==
  /\ Has(exercise)
  /\ LET e == Val(exercise)
         nextIndex == e.currentPhraseIndex + 1
     IN IF nextIndex < Len(e.shuffledPhrases)
        THEN /\ exercise' = Some(AdvanceExercise(e))
             /\ targetText' = Val(e.shuffledPhrases[nextIndex + 1].text)
             /\ result' = None
             /\ startRecordingMemo' =
                  Memo(Val(e.shuffledPhrases[nextIndex + 1].text), difficulty,
                       Some(AdvanceExercise(e)), savedPhrases)
        ELSE /\ exercise' = Some(AdvanceExercise(e))
             /\ UNCHANGED <<targetText, result, startRecordingMemo>>
  /\ ev' = Event("nextExercisePhrase", <<>>, <<>>)
  /\ writingPass' = None
  /\ UNCHANGED <<status, errorMessage, difficulty, audioVars, isGenerating, libraryVars,
                 modalVars, recorderVars, lsDifficulty, analyses, generateRequests, importVars,
                 idVars>>

\* The button under the speaking result.
NextExercisePhrase == Interactive /\ NextButtonShown /\ nextExercisePhrase

\* ------------------------------------------------------------------ reload
\* The difficulty that is always the default.
DefaultDifficulty(storedDifficulty) == "Medium"

\* if (storedDifficulty) setDifficulty(storedDifficulty as Difficulty), over the
\* useState default.
LoadDifficulty(storedDifficulty) ==
  IF Has(storedDifficulty) THEN Val(storedDifficulty) ELSE "Medium"

\* The effects of the first render, in the order of their definition: the
\* mount effect reads the stored library and difficulty; the difficulty effect
\* stores the difficulty of the first render, and stores the loaded one after
\* the render that the mount effect's state updates cause.  The memoised
\* startRecording stays the closure of the first render, targetText being
\* the same.
MountEffects ==
  /\ ev.op = "construct"
  /\ savedPhrases' = (IF Has(lsPhrases) THEN JSONparse(Val(lsPhrases)) ELSE <<>>)
  /\ difficulty' = LoadDifficulty(lsDifficulty)
  /\ lsDifficulty' = Some(LoadDifficulty(lsDifficulty))
  /\ ev' = Event("mount", <<>>, <<>>)
  /\ UNCHANGED writingPass
  /\ UNCHANGED <<sessionVars, audioVars, isGenerating, lsPhrases, modalVars, exercise,
                 recorderVars, startRecordingMemo, analyses, generateRequests, importVars, idVars>>

\* The application is restarted: the page is loaded again, the component is
\* constructed anew and its mount effect reads the stored library and
\* difficulty; what was pending is gone.  The memoised startRecording is the
\* closure of the first render, made before the mount effect ran.
Restart ==
  /\ ev.op # "construct"
  /\ targetText' = DefaultTargetText
  /\ status' = "IDLE"
  /\ result' = None
  /\ errorMessage' = ""
  /\ isTtsLoading' = FALSE
  /\ isGenerating' = FALSE
  /\ playingWord' = None
  /\ savedPhrases' = <<>>
  /\ difficulty' = "Medium"
  /\ phraseNote' = <<>>
  /\ showSaveModal' = FALSE
  /\ showSettings' = FALSE
  /\ exercise' = None
  /\ mediaRecorderRef' = None
  /\ audioChunksRef' = <<>>
  /\ startRecordingMemo' = Closure(DefaultTargetText, "Medium", None, <<>>)
  /\ deviceRequests' = {}
  /\ recorders' = {}
  /\ stopEvents' = {}
  /\ analyses' = {}
  /\ generateRequests' = 0
  /\ fileReaders' = {}
  /\ ttsRequests' = {}
  /\ ev' = Event("construct", <<>>, <<>>)
  /\ writingPass' = None
  /\ UNCHANGED <<lsPhrases, lsDifficulty, nStarts, nImports, downloads, idVars>>

\* ----------------------------------------------------------- specification
\* The practice session and the drill on a stored library, with the library
\* operations of the main interface that need no modal.
Next ==
  \/ GoHome
  \/ StartRecording
  \/ \E q \in deviceRequests : DeviceGranted(q)
  \/ \E q \in deviceRequests : DeviceDenied(q)
  \/ StopRecording
  \/ \E r \in stopEvents : RecorderOnStop(r)
  \/ \E a \in analyses, analysis \in AnalysisResponses : AnalysisSuccess(a, analysis)
  \/ \E a \in analyses : AnalysisFail(a)
  \/ DismissResult
  \/ GenerateText
  \/ \E phrase \in GeneratedPhrases : GenerateDone(phrase)
  \/ GenerateFail
  \/ \E i \in 1..Len(savedPhrases) : DeleteSavedPhrase(i)
  \/ \E i \in 1..Len(savedPhrases) : SelectSavedPhrase(i)
  \/ StartExerciseMode
  \/ QuitExercise
  \/ \E u \in TypedAnswers \cup {<<>>} : SetUserInput(u)
  \/ CheckWriting

Spec == InitStored /\ [][Next]_vars

\* The phrase library from the first visit on: saving, deleting, clearing,
\* importing, and rescoring through the drill's writing check.
NextLibrary ==
  \/ \E t \in TypedTexts : SetTargetText(t)
  \/ OpenSaveModal
  \/ CloseSaveModal
  \/ SavePhrase
  \/ \E i \in 1..Len(savedPhrases) : DeleteSavedPhrase(i)
  \/ OpenSettings
  \/ CloseSettings
  \/ ClearLibrary
  \/ \E file \in ImportFilesOfPhrases : ImportFile(file)
  \/ \E rd \in fileReaders, confirmed \in BOOLEAN : ImportLoad(rd, confirmed)
  \/ StartExerciseMode
  \/ QuitExercise
  \/ CheckWriting

SpecLibrary == Init /\ [][NextLibrary]_vars

\* Saving phrases: the target text box, the save modal and the library's
\* delete buttons; and handleSavePhrase called as the component defines it,
\* whatever the modal shows (the modal's opener is disabled on a blank text).
NextSave ==
  \/ \E t \in TypedTexts : SetTargetText(t)
  \/ OpenSaveModal
  \/ \E n \in TypedNotes : SetPhraseNote(n)
  \/ CloseSaveModal
  \/ SavePhrase
  \/ handleSavePhrase
  \/ \E i \in 1..Len(savedPhrases) : DeleteSavedPhrase(i)

SpecSave == (Init \/ InitStored) /\ [][NextSave]_vars

\* The drill's handlers called as the component defines them, whatever the
\* interface shows: the drill button is not rendered for an empty library,
\* and the button of nextExercisePhrase needs a speaking result inside the
\* exercise interface.
NextDrill ==
  \/ startExerciseMode
  \/ \E u \in TypedAnswers \cup {<<>>} : SetUserInput(u)
  \/ checkWriting
  \/ nextExercisePhrase
  \/ QuitExercise
  \/ GoHome

SpecDrill == InitDrill /\ [][NextDrill]_vars

\* The writing step of a drill on one phrase: short texts of every shape, and
\* long texts of one repeated word.
NextWriting ==
  \/ StartExerciseMode
  \/ \E u \in WritingInputs : SetUserInput(u)
  \/ CheckWriting
  \/ QuitExercise

SpecWriting == InitWriting /\ [][NextWriting]_vars

NextScore ==
  \/ StartExerciseMode
  \/ \E u \in ScoreInputs : SetUserInput(u)
  \/ CheckWriting
  \/ QuitExercise

SpecScore == InitScore /\ [][NextScore]_vars

\* Recording with the header's difficulty selector and the target-text box in
\* use, from a page load on.
NextRecording ==
  \/ MountEffects
  \/ \E d \in Difficulty : SetDifficulty(d)
  \/ \E t \in TypedTexts : SetTargetText(t)
  \/ StartRecording
  \/ \E q \in deviceRequests : DeviceGranted(q)
  \/ \E q \in deviceRequests : DeviceDenied(q)
  \/ StopRecording
  \/ \E r \in stopEvents : RecorderOnStop(r)
  \/ \E a \in analyses, analysis \in AnalysisResponses : AnalysisSuccess(a, analysis)
  \/ \E a \in analyses : AnalysisFail(a)
  \/ DismissResult

SpecRecording == InitConstructed /\ [][NextRecording]_vars

\* A drill with everything that its handlers and the library's handlers can do
\* while it lasts, each called as the component defines it: the interface
\* shows the library only once the drill's status has left EXERCISE.
NextSnapshot ==
  \/ startExerciseMode
  \/ \E u \in TypedAnswers : SetUserInput(u)
  \/ checkWriting
  \/ nextExercisePhrase
  \/ handleSavePhrase
  \/ \E i \in 1..Len(savedPhrases) : deleteSavedPhrase(i)
  \/ QuitExercise
  \/ GoHome

SpecSnapshot == InitSnapshot /\ [][NextSnapshot]_vars

\* Every operation that writes the library: saving, deleting, clearing and
\* importing, and the score update of the drill's writing check.
NextStore ==
  \/ handleSavePhrase
  \/ \E i \in 1..Len(savedPhrases) : DeleteSavedPhrase(i)
  \/ OpenSettings
  \/ ClearLibrary
  \/ \E file \in {f \in ImportFilesOfPhrases : Len(f.json) = 1} : ImportFile(file)
  \/ \E rd \in fileReaders, confirmed \in BOOLEAN : ImportLoad(rd, confirmed)
  \/ StartExerciseMode
  \/ CheckWriting
  \/ QuitExercise

SpecStore == Mounted(Some(<<StoredPhrase1>>), MaxAdds - 1) /\ [][NextStore]_vars

\* The header's difficulty selector across restarts of the application, with
\* the target-text box, the modals and the drill in use.
NextSettings ==
  \/ MountEffects
  \/ Restart
  \/ \E d \in Difficulty : SetDifficulty(d)
  \/ \E t \in TypedTexts : SetTargetText(t)
  \/ OpenSettings
  \/ CloseSettings
  \/ OpenSaveModal
  \/ CloseSaveModal
  \/ StartExerciseMode
  \/ QuitExercise
  \/ GoHome

SpecSettings == InitConstructed /\ [][NextSettings]_vars

\* Listening to the target text and to the words of a speaking result, with
\* the recording that gives the result.
NextAudio ==
  \/ Listen
  \/ \E word \in {<<"a">>} : PlayWord(word)
  \/ \E rq \in ttsRequests : SynthesisFail(rq)
  \/ \E rq \in ttsRequests : SynthesisPlay(rq)
  \/ \E rq \in ttsRequests : PlaybackEnded(rq)
  \/ \E t \in TypedTexts : SetTargetText(t)
  \/ StartRecording
  \/ \E q \in deviceRequests : DeviceGranted(q)
  \/ StopRecording
  \/ \E r \in stopEvents : RecorderOnStop(r)
  \/ \E a \in analyses, analysis \in AnalysisResponses : AnalysisSuccess(a, analysis)
  \/ GoHome

SpecAudio == InitStored /\ [][NextAudio]_vars

\* The word buttons of a speaking result whose words include an empty string.
NextWords ==
  \/ \E word \in {<<>>, <<"a">>} : PlayWord(word)
  \/ \E rq \in ttsRequests : SynthesisFail(rq)
  \/ \E rq \in ttsRequests : SynthesisPlay(rq)
  \/ \E rq \in ttsRequests : PlaybackEnded(rq)
  \/ StartRecording
  \/ \E q \in deviceRequests : DeviceGranted(q)
  \/ StopRecording
  \/ \E r \in stopEvents : RecorderOnStop(r)
  \/ \E a \in analyses, analysis \in WordResponses : AnalysisSuccess(a, analysis)
  \/ DismissResult

SpecWords == InitStored /\ [][NextWords]_vars

\* Importing into a stored library, with or without the same text saved twice.
NextImport ==
  \/ OpenSettings
  \/ CloseSettings
  \/ \E file \in ImportFiles : ImportFile(file)
  \/ \E rd \in fileReaders, confirmed \in BOOLEAN : ImportLoad(rd, confirmed)
  \/ ClearLibrary

SpecImport == InitImport /\ [][NextImport]_vars

\* ==================================================================== claims

\* The library entries with a given id.
EntriesOf(lib, id) == {i \in 1..Len(lib) : lib[i].id = id}
PracticeCountOf(p) == IF Has(p.practiceCount) THEN Val(p.practiceCount) ELSE 0

TextsOf(lib) == {lib[i].text : i \in 1..Len(lib)}

\* The records of a parsed array.
ImportedRecords(json) == {ParsePhrase(json[i]) : i \in {k \in 1..Len(json) : json[k] # JSONnull}}

\* C1: after a confirmed import, for every text that occurs both in an imported
\* record and in a library phrase, the entry with that text in the resulting
\* library is an imported record, with the imported id, note, lastScore and
\* practiceCount.
C1_ImportedRecordWins ==
  [][\A rd \in fileReaders :
       ImportLoad(rd, TRUE)
       => \A i \in 1..Len(savedPhrases') :
            ( /\ savedPhrases'[i].text \in {r.text : r \in ImportedRecords(rd.file.json)}
              /\ savedPhrases'[i].text \in TextsOf(savedPhrases) )
            => savedPhrases'[i] \in ImportedRecords(rd.file.json)]_vars

\* C2: in a drill, a writing check of the current phrase followed by a
\* successful speaking analysis of the recording started after it, with no
\* other library operation in between, leaves the phrase's library entry with a
\* practiceCount 2 greater than before the writing check and with the speaking
\* accuracyScore as lastScore.
C2_WritingThenSpeakingCountsTwice ==
  [][\A a \in analyses, analysis \in AnalysisResponses :
       ( /\ AnalysisSuccess(a, analysis)
         /\ Has(writingPass) /\ Val(writingPass).request = a.n
         /\ Has(exercise) /\ CurrentPhrase(Val(exercise)).id = Val(writingPass).id )
       => /\ EntriesOf(savedPhrases', Val(writingPass).id) # {}
          /\ \A i \in EntriesOf(savedPhrases', Val(writingPass).id) :
               /\ savedPhrases'[i].lastScore = analysis.accuracyScore
               /\ \E before \in Val(writingPass).before :
                    PracticeCountOf(savedPhrases'[i]) =
                      (IF Has(before) THEN Val(before) ELSE 0) + 2]_vars

\* C3: a successful analysis completion during a drill makes exactly one
\* updatePhraseScore call, for the id of the drill's current phrase and with
\* the analysis' accuracyScore; one that completes when no drill is active
\* makes no call and leaves the library unchanged.
C3_OneScoreCallIffDrillActive ==
  [][\A a \in analyses, analysis \in AnalysisResponses :
       AnalysisSuccess(a, analysis)
       => IF Has(exercise)
          THEN ev'.calls = << <<CurrentPhrase(Val(exercise)).id, analysis.accuracyScore>> >>
          ELSE ev'.calls = <<>> /\ savedPhrases' = savedPhrases /\ lsPhrases' = lsPhrases]_vars

\* C4: at most one recorder is started and not stopped, and at most one
\* analysis call is outstanding.
C4_OneRecordingOneAnalysis == Cardinality(recorders) <= 1 /\ Cardinality(analyses) <= 1

\* C5: right after an analysis failure is handled, status is ERROR and result
\* is unset, and a go-home that follows gives IDLE with targetText unchanged.
C5_FailureGivesErrorWithoutResult ==
  [][ /\ (\A a \in analyses : AnalysisFail(a) => status' = "ERROR" /\ result' = None)
      /\ (ev.op = "analysisFail" /\ GoHome => status' = "IDLE" /\ targetText' = targetText)]_vars

\* C6: from status ERROR the only next status is IDLE, and only through a
\* reset by the user (go home, or selecting a library phrase).
C6_ErrorLeftOnlyByReset ==
  [][status = "ERROR" /\ status' # "ERROR"
       => status' = "IDLE" /\ (GoHome \/ \E i \in 1..Len(savedPhrases) : SelectSavedPhrase(i))]_vars

\* C7: a score update for an id that no library entry has when the update is
\* applied leaves the library and the persisted store unchanged.
C7_UnknownIdChangesNothing ==
  [][\A k \in 1..Len(ev'.calls) :
       EntriesOf(savedPhrases, ev'.calls[k][1]) = {}
       => savedPhrases' = savedPhrases /\ lsPhrases' = lsPhrases]_vars

\* C9: every library entry's lastScore, when present, is an integer in [0,100].
C9_LastScoreInRange ==
  \A i \in 1..Len(savedPhrases) :
    Has(savedPhrases[i].lastScore) => Val(savedPhrases[i].lastScore) \in 0..100

\* C8: no two library entries have the same id.
C8_UniqueIds ==
  \A i, j \in 1..Len(savedPhrases) : i # j => savedPhrases[i].id # savedPhrases[j].id

NoDuplicateText(lib) == \A i, j \in 1..Len(lib) : i # j => lib[i].text # lib[j].text

\* C10 as stated: after a confirmed import of an array, whatever the array
\* holds, no two entries of the library have the same text.
C10_NoDuplicateTextAfterConfirmedImport ==
  ev.op \in {"importDone", "importFailed"} => NoDuplicateText(savedPhrases)

\* C10 amended: after a confirmed import of an array that the handler stores
\* (no element of the array is null), no two entries of the library have the
\* same text.
C10_NoDuplicateTextAfterStoredImport ==
  ev.op = "importDone" => NoDuplicateText(savedPhrases)

\* C10's case: a stored import whose merged sequence held a text more than
\* once, and that left several entries.
C10_Witness ==
  ev.op = "importDone" /\ Len(savedPhrases) < ev.merged /\ Len(savedPhrases) >= 2

\* C11: after a confirmed import the library is the imported entries, in the
\* order of the imported sequence, followed by the library's entries whose text
\* does not occur in the imported sequence, in their order. Stated for phrase
\* records and where neither sequence repeats a text.
C11_ImportedFirstThenRemaining ==
  [][\A rd \in fileReaders :
       ( /\ ImportLoad(rd, TRUE)
         /\ rd.file \in ImportFilesOfPhrases
         /\ NoDuplicateText(JSONparse(rd.file.json))
         /\ NoDuplicateText(savedPhrases) )
       => LET imported == JSONparse(rd.file.json)
              remains(p) == p.text \notin TextsOf(imported)
          IN savedPhrases' = imported \o SelectSeq(savedPhrases, remains)]_vars

\* A file that is not a sequence of phrase records.
IllFormed(file) ==
  file.kind # "array" \/ \E i \in 1..Len(file.json) : ~WellFormedRecord(file.json[i])

\* C12: an import of a file that is not a sequence of phrase records leaves
\* the library and the store unchanged and raises the format alert.
C12_IllFormedImportRejected ==
  [][\A rd \in fileReaders, confirmed \in BOOLEAN :
       (ImportLoad(rd, confirmed) /\ IllFormed(rd.file))
       => /\ savedPhrases' = savedPhrases
          /\ lsPhrases' = lsPhrases
          /\ "format" \in SeqToSet(ev'.alerts)]_vars

\* A text of whitespace only.
IsBlank(t) == \A i \in 1..Len(t) : t[i] \in Whitespace

\* C13: saving while the target text is blank creates no entry and leaves the
\* library and the store as they were.
C13_BlankTextNotSaved ==
  [][(handleSavePhrase /\ IsBlank(targetText))
     => (savedPhrases' = savedPhrases /\ lsPhrases' = lsPhrases)]_vars

\* C13's case: the save handler has run on a blank target text, the library
\* holding a phrase.
C13_Witness ==
  /\ ev.op \in {"savePhrase", "savePhraseBlank"}
  /\ IsBlank(targetText) /\ targetText # <<>>
  /\ Len(savedPhrases) >= 1

\* C14: saving a target text that is not blank puts one new entry in front of
\* the library's entries, which stay as they were: it has the trimmed text, an
\* id that no entry had, practiceCount 0 and no lastScore; the store holds the
\* same sequence.
C14_SavedPhraseInFront ==
  [][(handleSavePhrase /\ ~IsBlank(targetText))
     => /\ Len(savedPhrases') = Len(savedPhrases) + 1
        /\ Tail(savedPhrases') = savedPhrases
        /\ LET new == Head(savedPhrases')
           IN /\ new.text = Some(trim(targetText))
              /\ Head(Val(new.text)) \notin Whitespace
              /\ Val(new.text)[Len(Val(new.text))] \notin Whitespace
              /\ \A i \in 1..Len(savedPhrases) : savedPhrases[i].id # new.id
              /\ new.practiceCount = Some(0)
              /\ new.lastScore = None
        /\ Has(lsPhrases') /\ JSONparse(Val(lsPhrases')) = savedPhrases']_vars

\* C14's case: a phrase was saved in front of another one, its text being a
\* trimmed target text.
C14_Witness ==
  /\ ev.op = "savePhrase"
  /\ Len(savedPhrases) >= 2
  /\ targetText # Val(Head(savedPhrases).text)

\* C15: an updatePhraseScore call for an id that the library holds sets that
\* entry's lastScore to the score and adds one to its practiceCount (absent
\* counts as 0); the entry keeps its place and its other fields, and the other
\* entries are as they were.
C15_ScoreUpdateFrame ==
  [][\A k \in 1..Len(ev'.calls) :
       LET id == ev'.calls[k][1]
           score == ev'.calls[k][2]
       IN EntriesOf(savedPhrases, id) # {}
          => savedPhrases' =
               [i \in 1..Len(savedPhrases) |->
                  IF savedPhrases[i].id = id
                  THEN [savedPhrases[i] EXCEPT !.lastScore = score,
                                               !.practiceCount = Some(PracticeCountOf(savedPhrases[i]) + 1)]
                  ELSE savedPhrases[i]]]_vars

\* How often a phrase occurs in a sequence.
Occurrences(p, lib) == Cardinality({i \in 1..Len(lib) : lib[i] = p})

\* C16: the shuffledPhrases of a started drill is a permutation of the library
\* in which no phrase without lastScore comes after one with a lastScore and
\* no phrase comes after one with a lower lastScore; starting a drill on an
\* empty library changes nothing.
C16_DrillSortedByScore ==
  [][startExerciseMode
     => IF savedPhrases = <<>>
        THEN UNCHANGED <<sessionVars, exercise, libraryVars>>
        ELSE LET sh == Val(exercise').shuffledPhrases
             IN /\ Len(sh) = Len(savedPhrases)
                /\ \A p \in SeqToSet(savedPhrases) : Occurrences(p, sh) = Occurrences(p, savedPhrases)
                /\ \A i, j \in 1..Len(sh) :
                     i < j => /\ ~(Has(sh[i].lastScore) /\ ~Has(sh[j].lastScore))
                              /\ ~( /\ Has(sh[i].lastScore) /\ Has(sh[j].lastScore)
                                    /\ Val(sh[j].lastScore) < Val(sh[i].lastScore) )]_vars

\* C20: nextExercisePhrase moves a drill that is not on its last phrase to the
\* next index, in step WRITING with the answer and the writing result cleared
\* and the next phrase's text as target text; on the last phrase it sets step
\* FINISHED and keeps the index; shuffledPhrases and the library stay as they
\* were.
C20_NextPhraseOrFinished ==
  [][nextExercisePhrase
     => LET e == Val(exercise)
            n == Val(exercise')
        IN /\ IF e.currentPhraseIndex + 1 < Len(e.shuffledPhrases)
              THEN /\ n.currentPhraseIndex = e.currentPhraseIndex + 1
                   /\ n.step = "WRITING"
                   /\ n.userInput = <<>>
                   /\ n.writingResult = None
                   /\ Some(targetText') = n.shuffledPhrases[n.currentPhraseIndex + 1].text
              ELSE /\ n.step = "FINISHED"
                   /\ n.currentPhraseIndex = e.currentPhraseIndex
           /\ n.shuffledPhrases = e.shuffledPhrases
           /\ savedPhrases' = savedPhrases
           /\ lsPhrases' = lsPhrases]_vars

\* C20's case: a drill advanced from a checked phrase to the next one and then
\* finished on its last phrase.
C20_Witness ==
  /\ ev.op = "nextExercisePhrase"
  /\ Has(exercise)
  /\ Val(exercise).step = "FINISHED"
  /\ Val(exercise).currentPhraseIndex >= 1
  /\ nChecks >= 1

\* The drill has checked the typed answer of its current phrase.
WritingChecked == Has(exercise) /\ Has(Val(exercise).writingResult)
CheckedText == Val(CurrentPhrase(Val(exercise)).text)
CheckedInput == Val(exercise).userInput
CheckedResult == Val(Val(exercise).writingResult)

\* C17: the score of a writing check is an integer in [0,100], and it is 100
\* exactly when at every position of the normalized phrase's word sequence the
\* normalized answer has the same word.
C17_WritingScoreRange ==
  WritingChecked
  => LET targetWords == SplitSpace(normalizeText(CheckedText))
         userWords == SplitSpace(normalizeText(CheckedInput))
     IN /\ CheckedResult.score \in 0..100
        /\ CheckedResult.score = 100
             <=> \A i \in 1..Len(targetWords) : i <= Len(userWords) /\ userWords[i] = targetWords[i]

\* The whitespace-separated tokens of a text, and those of them that keep at
\* least one character when normalized: the words a reader sees in the phrase.
Tokens(t) == SelectSeq(SplitSpace(CollapseWhitespace(t)), LAMBDA w : w # <<>>)
OriginalWords(t) == SelectSeq(Tokens(t), LAMBDA w : StripPunctuation(w) # <<>>)

\* C18: the diff of a writing check has one entry per word of the normalized
\* phrase, in order; entry i is correct exactly when the i-th normalized word of
\* the answer equals the i-th normalized word of the phrase, and its word is
\* the original word of the phrase that the i-th normalized word came from.
C18_DiffOfOriginalWords ==
  WritingChecked
  => LET targetWords == SplitSpace(normalizeText(CheckedText))
         userWords == SplitSpace(normalizeText(CheckedInput))
         originalWords == OriginalWords(CheckedText)
         diff == CheckedResult.diff
     IN /\ Len(diff) = Len(targetWords)
        /\ \A i \in 1..Len(diff) :
             /\ diff[i].isCorrect <=> (i <= Len(userWords) /\ userWords[i] = targetWords[i])
             /\ i <= Len(originalWords) => diff[i].word = originalWords[i]

\* The shape of a normalized text.
IsNormalized(n) ==
  /\ \A i \in 1..Len(n) : n[i] \notin DOMAIN UpperToLower /\ n[i] \notin Punctuation
  /\ n # <<>> => n[1] \notin Whitespace /\ n[Len(n)] \notin Whitespace
  /\ \A i \in 1..(Len(n) - 1) : ~(n[i] \in Whitespace /\ n[i + 1] \in Whitespace)

\* C19: normalizeText is idempotent on the phrase and on the answer of every
\* writing check, and its result is lower-case, without punctuation, without
\* leading or trailing whitespace and without two adjacent whitespace
\* characters.
C19_NormalizeIdempotent ==
  WritingChecked
  => \A s \in {CheckedText, CheckedInput} :
       /\ normalizeText(normalizeText(s)) = normalizeText(s)
       /\ IsNormalized(normalizeText(s))

\* A phrase of two upper-case words separated by two whitespace characters has
\* been checked against an answer with punctuation.
C19_Witness ==
  /\ WritingChecked
  /\ \E i \in 2..(Len(CheckedText) - 2) :
       /\ CheckedText[i] \in Whitespace /\ CheckedText[i + 1] \in Whitespace
       /\ CheckedText[i - 1] \in DOMAIN UpperToLower /\ CheckedText[i + 2] \in DOMAIN UpperToLower
  /\ \E i \in 1..Len(CheckedInput) : CheckedInput[i] \in Punctuation


\* C21: quitting a drill, by a quit button or by go home, in any step, sets
\* exercise to null and status to IDLE and leaves the library and the store as
\* they were; once there is no drill, the only drill that appears is a new one
\* of startExerciseMode, at its first phrase with nothing typed or checked.
C21_QuitDiscardsDrill ==
  [][ /\ (QuitExercise \/ (GoHome /\ Has(exercise)))
         => /\ exercise' = None
            /\ status' = "IDLE"
            /\ savedPhrases' = savedPhrases
            /\ lsPhrases' = lsPhrases
      /\ (~Has(exercise) /\ Has(exercise'))
         => /\ ev'.op = "startExerciseMode"
            /\ Val(exercise').currentPhraseIndex = 0
            /\ Val(exercise').step = "WRITING"
            /\ Val(exercise').userInput = <<>>
            /\ Val(exercise').writingResult = None ]_vars

\* C21's case: a drill whose writing check was committed has been quit.
C21_Witness ==
  /\ ev.op = "quitExercise"
  /\ nChecks >= 1
  /\ ~Has(exercise)
  /\ \E i \in 1..Len(savedPhrases) : Has(savedPhrases[i].lastScore) /\ PracticeCountOf(savedPhrases[i]) = 1


\* A parsed response with the fields of an AnalysisResult.
WellFormedAnalysis(analysis) == Has(analysis.accuracyScore) /\ Has(analysis.mispronouncedWords)

\* C22: when analyzeSpeech delivers a response without the fields of an
\* AnalysisResult, the completion is handled as a failure: status becomes
\* ERROR, an unset result stays unset and the library and the store are not
\* written.
C22_MalformedResponseIsFailure ==
  [][\A a \in analyses, analysis \in AnalysisResponses :
       (AnalysisSuccess(a, analysis) /\ ~WellFormedAnalysis(analysis))
       => /\ status' = "ERROR"
          /\ ~Has(result) => ~Has(result')
          /\ savedPhrases' = savedPhrases
          /\ lsPhrases' = lsPhrases]_vars


\* C23: a start of recording that takes effect while status is RECORDING
\* creates no recorder and leaves the recorder reference, the captured chunks,
\* status and result as they were.
C23_StartWhileRecordingIsNoOp ==
  [][\A q \in deviceRequests :
       (DeviceGranted(q) /\ status = "RECORDING")
       => /\ recorders' = recorders
          /\ mediaRecorderRef' = mediaRecorderRef
          /\ audioChunksRef' = audioChunksRef
          /\ status' = status
          /\ result' = result]_vars


\* C24: while an analysis call is outstanding, status is ANALYZING.
C24_AnalyzingUntilCompletion == analyses # {} => status = "ANALYZING"


\* C25: the analysis call made when a recording is stopped is given the target
\* text and the difficulty that are current at that moment.
C25_AnalysisGetsCurrentSettings ==
  [][\A r \in stopEvents :
       RecorderOnStop(r)
       => \A a \in analyses' \ analyses :
            a.cl.targetText = targetText /\ a.cl.difficulty = difficulty]_vars


\* C26: right after a score write-back made during a drill (by checkWriting
\* or by a successful speaking analysis), the library entry of the drill's
\* current phrase and that phrase's entry in shuffledPhrases have the same
\* lastScore and practiceCount.
C26_SnapshotFollowsLibrary ==
  (Has(exercise) /\ ev.calls # <<>>)
  => LET current == CurrentPhrase(Val(exercise))
     IN \A i \in EntriesOf(savedPhrases, current.id) :
          /\ savedPhrases[i].lastScore = current.lastScore
          /\ savedPhrases[i].practiceCount = current.practiceCount


\* The ids of a drill's shuffledPhrases, in order.
SnapshotIds(e) == [i \in 1..Len(e.shuffledPhrases) |-> e.shuffledPhrases[i].id]

StoredLibrary == IF Has(lsPhrases) THEN JSONparse(Val(lsPhrases)) ELSE <<>>

\* C28: in every state after the mount effects, whatever operations wrote the
\* library, the persisted store holds the whole in-memory library.
C28_StoreEqualsLibrary == ev.op # "construct" => StoredLibrary = savedPhrases

\* C28's case: the library holds a phrase that was saved and a record that was
\* imported, after a writing check rescored a phrase.
C28_Witness ==
  /\ nChecks >= 1
  /\ \E i \in 1..Len(savedPhrases) : savedPhrases[i].id = Some(Uuid(MaxAdds))
  /\ \E i \in 1..Len(savedPhrases) : savedPhrases[i].note = Some(<<"i">>)
  /\ StoredLibrary # <<>>


\* C29: once the mount effects ran, the stored difficulty is the current one,
\* which is the one selected last; a restart keeps the stored difficulty, and
\* the mount effects that follow it make the stored difficulty the current one
\* and leave it stored, or make Medium the current one when none is stored.
C29_DifficultyPersists ==
  /\ [](ev.op # "construct" => lsDifficulty = Some(difficulty))
  /\ [][ /\ \A d \in Difficulty : SetDifficulty(d) => difficulty' = d /\ lsDifficulty' = Some(d)
         /\ Restart => lsDifficulty' = lsDifficulty
         /\ MountEffects
            => IF Has(lsDifficulty)
               THEN difficulty' = Val(lsDifficulty) /\ lsDifficulty' = lsDifficulty
               ELSE difficulty' = "Medium" ]_vars

\* C29's case: after a restart, the mount effects loaded a stored difficulty
\* other than the default.
C29_Witness ==
  /\ ev.op = "mount"
  /\ difficulty = "Hard"
  /\ lsDifficulty = Some("Hard")

\* C30: when a speech synthesis fails, the loading flag its action set is
\* cleared (isTtsLoading for handleListen, playingWord for handlePlayWord), so
\* that the action's button is enabled again, and status, result, the drill
\* and the library are as they were.
C30_SynthesisFailureClearsFlag ==
  [][\A rq \in ttsRequests :
       SynthesisFail(rq)
       => /\ rq.for = "listen" => ~isTtsLoading'
          /\ rq.for = "word" => ~Has(playingWord')
          /\ status' = status /\ result' = result /\ exercise' = exercise
          /\ savedPhrases' = savedPhrases /\ lsPhrases' = lsPhrases]_vars

\* C30's case: the playback of a word of a speaking result failed while the
\* result is shown, and the word buttons are enabled again.
C30_Witness ==
  /\ ev.op = "playWordFailed"
  /\ status = "RESULT" /\ Has(result)
  /\ ~Has(playingWord)


\* C31: at most one handlePlayWord request is under way at any time.
C31_OneWordPlayback == Cardinality({rq \in ttsRequests : rq.for = "word"}) <= 1


\* C32: in a drill, once the writing check of the current phrase was made and
\* a speaking analysis of that phrase has completed with a well-formed result,
\* the interface shows the button of nextExercisePhrase.
C32_AdvanceAvailable ==
  ( /\ Has(exercise) /\ Has(Val(exercise).writingResult)
    /\ ev.op = "analysisSuccess"
    /\ Len(ev.calls) = 1 /\ ev.calls[1][1] = CurrentPhrase(Val(exercise)).id
    /\ Has(result) /\ WellFormedAnalysis(Val(result))
    /\ PageClickable )
  => NextButtonShown


\* C33: the completion of an analysis neither adds nor removes library entries
\* and changes at most lastScore and practiceCount of the drilled phrase that
\* the completion scores, in memory and in the persisted store.
C33_CompletionKeepsLibrary ==
  [][ev'.op \in {"analysisSuccess", "analysisFail"} /\ analyses' # analyses
       => /\ Len(savedPhrases') = Len(savedPhrases)
          /\ \A i \in 1..Len(savedPhrases) :
               \/ savedPhrases'[i] = savedPhrases[i]
               \/ /\ \E k \in 1..Len(ev'.calls) : savedPhrases[i].id = ev'.calls[k][1]
                  /\ [savedPhrases'[i] EXCEPT !.lastScore = None, !.practiceCount = None]
                       = [savedPhrases[i] EXCEPT !.lastScore = None, !.practiceCount = None]
          /\ \/ lsPhrases' = lsPhrases
             \/ lsPhrases' = Some(JSONstringify(savedPhrases'))]_vars


\* ------------------------------------------------- C34: analyses complete
\* The practice session alone: recording, analysis, and leaving the result.
NextAnalysis ==
  \/ GoHome
  \/ StartRecording
  \/ \E q \in deviceRequests : DeviceGranted(q)
  \/ \E q \in deviceRequests : DeviceDenied(q)
  \/ StopRecording
  \/ \E r \in stopEvents : RecorderOnStop(r)
  \/ \E a \in analyses, analysis \in AnalysisResponses : AnalysisSuccess(a, analysis)
  \/ \E a \in analyses : AnalysisFail(a)
  \/ DismissResult

\* The analyzeSpeech call of the n-th recording is outstanding.
Outstanding(n) == \E a \in analyses : a.n = n
\* handleProcessing's continuation for that call: the promise settled.
Completion(n) ==
  \E a \in analyses :
    /\ a.n = n
    /\ \/ \E analysis \in AnalysisResponses : AnalysisSuccess(a, analysis)
       \/ AnalysisFail(a)

\* Every analyzeSpeech call returns or fails.
SpecAnalysis ==
  /\ InitStored
  /\ [][NextAnalysis]_vars
  /\ \A n \in 1..MaxStarts : WF_vars(Completion(n))

\* C34: every analysis call that is outstanding is eventually handled, the
\* handling of a completion leaves status RESULT with a result, or ERROR, and
\* status ANALYZING is always followed by RESULT or ERROR.
C34_AnalysisIsHandled ==
  /\ \A n \in 1..MaxStarts : Outstanding(n) ~> ~Outstanding(n)
  /\ [][analyses' # analyses /\ analyses' \subseteq analyses
          => \/ status' = "RESULT" /\ Has(result')
             \/ status' = "ERROR"]_vars
  /\ (status = "ANALYZING") ~> (status \in {"RESULT", "ERROR"})


\* ------------------------------------------------- C35: the drill's state
\* The drill's handlers called as the component defines them, with the
\* handlers that set status or targetText from outside the drill.
NextExercise ==
  \/ startExerciseMode
  \/ \E u \in TypedAnswers \cup {<<>>} : SetUserInput(u)
  \/ checkWriting
  \/ nextExercisePhrase
  \/ QuitExercise
  \/ GoHome
  \/ \E i \in 1..Len(savedPhrases) : SelectSavedPhrase(i)
  \/ GenerateText
  \/ \E phrase \in GeneratedPhrases : GenerateDone(phrase)
  \/ GenerateFail

SpecExercise == InitDrill /\ [][NextExercise]_vars

\* C35: with status EXERCISE there is an exercise state whose shuffledPhrases
\* is not empty and whose currentPhraseIndex is an index of it; in step RESULT
\* the writingResult is present; and while a drill lasts (no new drill is
\* started) its currentPhraseIndex never decreases.
C35_ExerciseWellFormed ==
  /\ [](status = "EXERCISE"
          => /\ Has(exercise)
             /\ Len(Val(exercise).shuffledPhrases) > 0
             /\ Val(exercise).currentPhraseIndex \in 0..(Len(Val(exercise).shuffledPhrases) - 1))
  /\ [](Has(exercise) /\ Val(exercise).step = "RESULT" => Has(Val(exercise).writingResult))
  /\ [][Has(exercise) /\ Has(exercise') /\ ev'.op # "startExerciseMode"
          => Val(exercise').currentPhraseIndex >= Val(exercise).currentPhraseIndex]_vars

\* A checked answer of the second phrase of a drill.
C35_Witness ==
  /\ status = "EXERCISE" /\ Has(exercise)
  /\ Val(exercise).currentPhraseIndex >= 1
  /\ Val(exercise).step = "RESULT"
  /\ ev.op = "checkWriting"


\* ------------------------------------------------- C36: export, then import
\* Exporting a stored library, with or without the same text saved twice, and
\* importing an exported file.
NextRoundTrip ==
  \/ OpenSettings
  \/ CloseSettings
  \/ Export
  \/ \E file \in downloads : ImportFile(file)
  \/ \E rd \in fileReaders, confirmed \in BOOLEAN : ImportLoad(rd, confirmed)
  \/ \E i \in 1..Len(savedPhrases) : DeleteSavedPhrase(i)

SpecRoundTrip == InitImport /\ [][NextRoundTrip]_vars

\* C36: a confirmed import of the file that handleExport makes of the library
\* leaves the library as it is: the same entries with the same fields in the
\* same order, in memory and in the store.
C36_ExportImportRoundTrip ==
  [][\A rd \in fileReaders :
       (ImportLoad(rd, TRUE) /\ rd.file = ExportedFile(savedPhrases))
       => /\ savedPhrases' = savedPhrases
          /\ lsPhrases' = Some(JSONstringify(savedPhrases))]_vars

====
